---- MODULE Spec2Model ----
(***************************************************************************)
(* A model of the tiktok_downloader package: the filter service, the       *)
(* settings resolver, the URL collector and the download_videos entry      *)
(* point, as they are written in src/src/tiktok_downloader.                *)
(*                                                                         *)
(* Python values.  An Optional value is a set with at most one element:    *)
(* None is {} and a present value v is {v}.  An object is a record whose   *)
(* DOMAIN is the set of its attributes, so that reading an attribute the   *)
(* class does not declare is visible as an AttributeError.  Keyword        *)
(* arguments are a function whose DOMAIN is the set of names the caller    *)
(* supplied.  A string that the code takes apart (a line of the batch      *)
(* file) is a sequence of characters.                                      *)
(***************************************************************************)
EXTENDS Integers, Sequences, FiniteSets, TLC

VARIABLES
    pc,         \* position of the call under study: "call", "returned", "raised"
    args,       \* the arguments of the call (a record keyed by parameter name)
    files,      \* the file system the call reads: path -> sequence of lines
    ret,        \* the value the call returned (<<>> until it returns)
    raised,     \* the exception the call ended in, or NoException
    fetched,    \* URLs handed to TikTokRepository.fetch_metadata, in call order
    dispatched, \* the calls of TikTokRepository.download_videos, in call order
    ydl         \* the calls made to the yt_dlp engine, in call order

vars == <<pc, args, files, ret, raised, fetched, dispatched, ydl>>

(***************************************************************************)
(* Bounds of the model.                                                    *)
(***************************************************************************)
MaxVideos == 3      \* longest list of videos handed to apply_filters
MaxCount == 1       \* largest like/view count and largest threshold
MaxGiven == 2       \* most keyword arguments a caller supplies to download_videos
MaxConfigSet == 2   \* most fields of the Config object that are not None
MaxLines == 3       \* most lines of a batch file read by the URL collector
MaxLineLen == 2     \* most characters of a line before its line end

(***************************************************************************)
(* Python values and helpers.                                              *)
(***************************************************************************)
None == {}
Some(v) == {v}
Val(o) == CHOOSE v \in o : TRUE
Opt(S) == {None} \cup {Some(v) : v \in S}

NoException == "NoException"

\* Python truthiness of an Optional[int], Optional[str], Optional[bool]
TruthyInt(o) == o # None /\ Val(o) # 0
TruthyStr(o) == o # None /\ Val(o) # ""
TruthyBool(o) == o # None /\ Val(o)

Range(s) == {s[i] : i \in 1..Len(s)}

\* All sequences over S of length at most n
SeqsUpTo(S, n) == UNION {[1..k -> S] : k \in 0..n}

\* [x for x in s if Test(x)]
RECURSIVE Comprehension(_, _)
Comprehension(s, keep) ==
    IF s = <<>> THEN <<>>
    ELSE IF Head(s) \in keep
         THEN <<Head(s)>> \o Comprehension(Tail(s), keep)
         ELSE Comprehension(Tail(s), keep)

(***************************************************************************)
(* domains/tiktok/models.py: the Video dataclass.  It declares id,         *)
(* webpage_url, title, like_count and view_count, and no upload_date.      *)
(***************************************************************************)
VideoIds == {"a", "b"}
Counts == 0..MaxCount

Video(id, like_count, view_count) ==
    [id |-> id,
     webpage_url |-> "https://tiktok.example/" \o id,
     title |-> Some("title " \o id),
     like_count |-> like_count,
     view_count |-> view_count]

Videos == {Video(id, lc, vc) : id \in VideoIds, lc \in Opt(Counts), vc \in Opt(Counts)}

HasAttr(obj, name) == name \in DOMAIN obj

(***************************************************************************)
(* domains/tiktok/services.py: FilterService.apply_filters.                *)
(* The list is narrowed by one comprehension per supplied criterion.  The  *)
(* third comprehension reads video.upload_date, which Video does not       *)
(* declare: with a date supplied and a video left to test it raises.       *)
(***************************************************************************)
LikesPass(video, min_likes) ==
    video.like_count # None /\ Val(video.like_count) >= Val(min_likes)

ViewsPass(video, min_views) ==
    video.view_count # None /\ Val(video.view_count) >= Val(min_views)

\* FilterByLikes with a strict comparison and a missing count let through
FilterByLikesStrict(videos, min_likes) ==
    IF min_likes # None
    THEN Comprehension(videos,
             {v \in Range(videos) :
                 v.like_count = None \/ Val(v.like_count) > Val(min_likes)})
    ELSE videos

FilterByLikes(videos, min_likes) ==
    IF min_likes # None
    THEN Comprehension(videos, {v \in Range(videos) : LikesPass(v, min_likes)})
    ELSE videos

IfAbsent(a, b) == IF a = None THEN b ELSE a

Reverse(s) == [i \in 1..Len(s) |-> s[Len(s) + 1 - i]]

\* FilterByViews collecting the survivors in reverse order
FilterByViewsReversed(videos, min_views) ==
    IF min_views # None
    THEN Reverse(Comprehension(videos, {v \in Range(videos) : ViewsPass(v, min_views)}))
    ELSE videos

FilterByViews(videos, min_views) ==
    IF min_views # None
    THEN Comprehension(videos, {v \in Range(videos) : ViewsPass(v, min_views)})
    ELSE videos

\* apply_filters reading an absent threshold as the threshold 0
ApplyFiltersAbsentAsZero(videos, min_likes, min_views, process_after_date) ==
    [raised |-> NoException,
     value |-> FilterByViews(FilterByLikes(videos, IfAbsent(min_likes, Some(0))),
                             IfAbsent(min_views, Some(0)))]

apply_filters(videos, min_likes, min_views, process_after_date) ==
    LET byLikes == FilterByLikes(videos, min_likes)
        byViews == FilterByViews(byLikes, min_views)
    IN  IF process_after_date # None
        THEN IF \E i \in 1..Len(byViews) : ~HasAttr(byViews[i], "upload_date")
             THEN [raised |-> "AttributeError", value |-> <<>>]
             ELSE [raised |-> NoException,
                   value |-> Comprehension(byViews,
                       {v \in Range(byViews) :
                           v.upload_date # None
                           /\ Val(v.upload_date) >= Val(process_after_date)})]
        ELSE [raised |-> NoException, value |-> byViews]

\* The caller's list in place of which the survivors are kept
InputAfterInPlace(videos, min_likes, min_views, process_after_date) ==
    FilterByViews(FilterByLikes(videos, min_likes), min_views)

\* The caller's list after the call: every comprehension builds a new list
\* and rebinds the local name filtered_videos (lines 43-61), so the list
\* passed in and its records are as they were
InputAfter(videos, min_likes, min_views, process_after_date) == videos

Dates == {20240101}

InitFilter ==
    /\ pc = "call"
    /\ args \in [videos : SeqsUpTo(Videos, MaxVideos),
                 min_likes : Opt(Counts),
                 min_views : Opt(Counts),
                 process_after_date : Opt(Dates)]
    /\ files = <<>>
    /\ ret = <<>>
    /\ raised = NoException
    /\ fetched = <<>>
    /\ dispatched = <<>>
    /\ ydl = <<>>

ApplyFilters ==
    /\ pc = "call"
    /\ LET r == apply_filters(args.videos, args.min_likes, args.min_views,
                              args.process_after_date)
       IN  /\ ret' = r.value
           /\ raised' = r.raised
           /\ pc' = IF r.raised = NoException THEN "returned" ELSE "raised"
    /\ args' = [args EXCEPT !.videos = InputAfter(args.videos, args.min_likes,
                                                  args.min_views,
                                                  args.process_after_date)]
    /\ UNCHANGED <<files, fetched, dispatched, ydl>>

NextFilter == ApplyFilters

SpecFilter == InitFilter /\ [][NextFilter]_vars

\* A second call that drops the first record of the list it is given
ApplyFiltersToTail ==
    /\ pc = "returned"
    /\ ret' = apply_filters(IF ret = <<>> THEN ret ELSE Tail(ret), args.min_likes,
                            args.min_views, args.process_after_date).value
    /\ pc' = "refiltered"
    /\ UNCHANGED <<args, raised, files, fetched, dispatched, ydl>>

\* A second call of apply_filters, on the list the first call returned and
\* with the same criteria
ApplyFiltersToResult ==
    /\ pc = "returned"
    /\ LET r == apply_filters(ret, args.min_likes, args.min_views,
                              args.process_after_date)
       IN  /\ ret' = r.value
           /\ raised' = r.raised
    /\ pc' = "refiltered"
    /\ UNCHANGED <<args, files, fetched, dispatched, ydl>>

\* A second call of apply_filters on the same input list with the same
\* criteria
ApplyFiltersAgain ==
    /\ pc = "returned"
    /\ LET r == apply_filters(args.videos, args.min_likes, args.min_views,
                              args.process_after_date)
       IN  /\ ret' = r.value
           /\ raised' = r.raised
    /\ args' = [args EXCEPT !.videos = InputAfter(args.videos, args.min_likes,
                                                  args.min_views,
                                                  args.process_after_date)]
    /\ pc' = "returned_again"
    /\ UNCHANGED <<files, fetched, dispatched, ydl>>

NextRepeat == ApplyFilters \/ ApplyFiltersToResult \/ ApplyFiltersAgain

SpecRepeat == InitFilter /\ [][NextRepeat]_vars

(***************************************************************************)
(* domains/config/schemas.py: the Config model.  Ten Optional fields; it   *)
(* declares no download_archive.                                           *)
(***************************************************************************)
ConfigFields ==
    {"output_path", "min_likes", "min_views", "transcripts",
     "transcript_language", "concurrent_downloads", "min_sleep_interval",
     "max_sleep_interval", "cookies_from_browser", "cookies_file"}

\* The values a field of Config takes in the model when it is not None
ConfigValuesOf(field) ==
    CASE field = "output_path" -> <<Some("/cfg"), Some("")>>
      [] field = "min_likes" -> <<Some(1), Some(0)>>
      [] field = "min_views" -> <<Some(1), Some(0)>>
      [] field = "transcripts" -> <<Some(TRUE), Some(FALSE)>>
      [] field = "transcript_language" -> <<Some("fr"), Some("")>>
      [] field = "concurrent_downloads" -> <<Some(5), Some(1)>>
      [] field = "min_sleep_interval" -> <<Some(10), Some(0)>>
      [] field = "max_sleep_interval" -> <<Some(20), Some(0)>>
      [] field = "cookies_from_browser" -> <<Some("firefox"), Some("")>>
      [] field = "cookies_file" -> <<Some("/cfg/cookies.txt"), Some("")>>

Config(set, pick) ==
    [field \in ConfigFields |->
        IF field \in set THEN ConfigValuesOf(field)[pick[field]] ELSE None]

Configs ==
    {Config(set, pick) :
        set \in {S \in SUBSET ConfigFields : Cardinality(S) <= MaxConfigSet},
        pick \in [ConfigFields -> 1..2]}

(***************************************************************************)
(* main.py: the signature of download_videos.  A parameter the caller does *)
(* not supply takes the default of the signature.                          *)
(***************************************************************************)
SettingParams ==
    {"output_path", "min_likes", "min_views", "download_transcripts",
     "transcript_language", "concurrent_downloads", "min_sleep_interval",
     "max_sleep_interval", "cookies_from_browser", "cookies_file",
     "download_archive"}

Default(param) ==
    CASE param = "transcript_language" -> Some("en-US")
      [] param = "concurrent_downloads" -> Some(1)
      [] param = "metadata_only" -> Some(FALSE)
      [] param = "config_path" -> Some("config.ini")
      [] OTHER -> None

Param(kwargs, param) ==
    IF param \in DOMAIN kwargs THEN kwargs[param] ELSE Default(param)

\* The values a caller supplies for a parameter in the model
SuppliedValuesOf(param) ==
    CASE param = "output_path" -> <<None, Some(""), Some("/out")>>
      [] param = "min_likes" -> <<None, Some(0), Some(2)>>
      [] param = "min_views" -> <<None, Some(0), Some(2)>>
      [] param = "download_transcripts" -> <<None, Some(FALSE), Some(TRUE)>>
      [] param = "transcript_language" -> <<None, Some(""), Some("es")>>
      [] param = "concurrent_downloads" -> <<None, Some(1), Some(3)>>
      [] param = "min_sleep_interval" -> <<None, Some(0), Some(2)>>
      [] param = "max_sleep_interval" -> <<None, Some(0), Some(2)>>
      [] param = "cookies_from_browser" -> <<None, Some(""), Some("chrome")>>
      [] param = "cookies_file" -> <<None, Some(""), Some("/c.txt")>>
      [] param = "download_archive" -> <<None, Some(""), Some("/arch.txt")>>

SettingKwargs ==
    UNION {{[param \in given |-> SuppliedValuesOf(param)[pick[param]]] :
                pick \in [given -> 1..3]} :
            given \in {S \in SUBSET SettingParams : Cardinality(S) <= MaxGiven}}

(***************************************************************************)
(* main.py: _resolve_archive_path and _resolve_settings.                   *)
(***************************************************************************)
ArchiveFileName == ".tiktok-downloader-archive.txt"

\* str(Path(p)): trailing separators are dropped, the empty path is "."
PathStr(p) ==
    CASE p = "" -> "."
      [] p = "/out/" -> "/out"
      [] p = "/cfg/" -> "/cfg"
      [] OTHER -> p

\* str(Path(p) / name): joining onto "." gives the bare name
PathJoin(p, name) ==
    IF PathStr(p) = "." THEN name
    ELSE IF PathStr(p) = "/" THEN "/" \o name
    ELSE PathStr(p) \o "/" \o name

\* Python's "a or b" on Optional strings
OrStr(a, b) == IF TruthyStr(a) THEN a ELSE b

\* Python's "a if a is not None else b"
IfNotNone(a, b) == IF a # None THEN a ELSE b

_resolve_archive_path(download_archive, config_archive, output_path) ==
    IF TruthyStr(download_archive) THEN Val(download_archive)
    ELSE IF TruthyStr(config_archive) THEN Val(config_archive)
    ELSE PathJoin(output_path, ArchiveFileName)

_resolve_settings(config, output_path, min_likes, min_views, download_transcripts, transcript_language, concurrent_downloads, min_sleep_interval, max_sleep_interval, cookies_from_browser, cookies_file, download_archive) ==
    \* The attributes of config the body reads: "a or config.x" and
    \* "a if a is not None else config.x" read config.x only when a does not
    \* decide; config.download_archive is read on every call (line 75).
    LET reads ==
            {"download_archive"}
            \cup (IF TruthyStr(output_path) THEN {} ELSE {"output_path"})
            \cup (IF min_likes # None THEN {} ELSE {"min_likes"})
            \cup (IF min_views # None THEN {} ELSE {"min_views"})
            \cup (IF concurrent_downloads # None THEN {}
                  ELSE {"concurrent_downloads"})
            \cup (IF min_sleep_interval # None THEN {}
                  ELSE {"min_sleep_interval"})
            \cup (IF max_sleep_interval # None THEN {}
                  ELSE {"max_sleep_interval"})
            \cup (IF TruthyStr(cookies_from_browser) THEN {}
                  ELSE {"cookies_from_browser"})
            \cup (IF TruthyStr(cookies_file) THEN {} ELSE {"cookies_file"})
            \cup (IF download_transcripts # None THEN {} ELSE {"transcripts"})
            \cup (IF /\ (download_transcripts # None \/ HasAttr(config, "transcripts"))
                     /\ TruthyBool(IF download_transcripts # None
                                   THEN download_transcripts
                                   ELSE config.transcripts)
                     /\ ~TruthyStr(transcript_language)
                  THEN {"transcript_language"} ELSE {})
    IN
    IF \E attr \in reads : ~HasAttr(config, attr)
    THEN [raised |-> "AttributeError", value |-> <<>>]
    ELSE
    LET resolved_output_path == OrStr(OrStr(output_path, config.output_path), Some("."))
        transcripts_enabled == IfNotNone(download_transcripts, config.transcripts)
    IN  [raised |-> NoException,
         value |->
           [output_path |-> resolved_output_path,
            min_likes |-> IfNotNone(min_likes, config.min_likes),
            min_views |-> IfNotNone(min_views, config.min_views),
            concurrent_downloads |->
                IfNotNone(concurrent_downloads, config.concurrent_downloads),
            min_sleep_interval |->
                IfNotNone(min_sleep_interval, config.min_sleep_interval),
            max_sleep_interval |->
                IfNotNone(max_sleep_interval, config.max_sleep_interval),
            cookies_from_browser |->
                OrStr(cookies_from_browser, config.cookies_from_browser),
            cookies_file |-> OrStr(cookies_file, config.cookies_file),
            transcript_language |->
                IF TruthyBool(transcripts_enabled)
                THEN OrStr(transcript_language, config.transcript_language)
                ELSE None,
            download_archive |->
                Some(_resolve_archive_path(download_archive,
                                           config.download_archive,
                                           Val(resolved_output_path)))]]

InitResolve ==
    /\ pc = "call"
    /\ args \in [config : Configs, kwargs : SettingKwargs]
    /\ files = <<>>
    /\ ret = <<>>
    /\ raised = NoException
    /\ fetched = <<>>
    /\ dispatched = <<>>
    /\ ydl = <<>>

\* The call of _resolve_settings that download_videos makes (main.py 163-176)
ResolveSettings ==
    /\ pc = "call"
    /\ LET P(param) == Param(args.kwargs, param)
           r == _resolve_settings(args.config, P("output_path"), P("min_likes"),
                    P("min_views"), P("download_transcripts"),
                    P("transcript_language"), P("concurrent_downloads"),
                    P("min_sleep_interval"), P("max_sleep_interval"),
                    P("cookies_from_browser"), P("cookies_file"),
                    P("download_archive"))
       IN  /\ ret' = r.value
           /\ raised' = r.raised
           /\ pc' = IF r.raised = NoException THEN "returned" ELSE "raised"
    /\ UNCHANGED <<args, files, fetched, dispatched, ydl>>

NextResolve == ResolveSettings

SpecResolve == InitResolve /\ [][NextResolve]_vars

(***************************************************************************)
(* main.py: _get_urls_to_process.  The strings it handles are sequences of *)
(* characters; a line read from the file keeps its line end.               *)
(***************************************************************************)
Whitespace == {" ", "\n"}
UrlChars == {"a", "b"}

\* str.strip(): drop the whitespace at both ends
RECURSIVE LStrip(_)
LStrip(line) ==
    IF line # <<>> /\ Head(line) \in Whitespace THEN LStrip(Tail(line)) ELSE line

RECURSIVE RStrip(_)
RStrip(line) ==
    IF line # <<>> /\ line[Len(line)] \in Whitespace
    THEN RStrip(SubSeq(line, 1, Len(line) - 1))
    ELSE line

Strip(line) == RStrip(LStrip(line))

\* Python truthiness of an Optional string held as a character sequence
TruthyText(o) == o # None /\ Val(o) # <<>>

\* [line.strip() for line in f if line.strip()]
RECURSIVE StrippedLines(_)
StrippedLines(lines) ==
    IF lines = <<>> THEN <<>>
    ELSE IF Strip(Head(lines)) # <<>>
         THEN <<Strip(Head(lines))>> \o StrippedLines(Tail(lines))
         ELSE StrippedLines(Tail(lines))

\* The same collector with the single URL put in front of the file's URLs
UrlsWithArgumentFirst(tiktok_url, from_file, fs) ==
    IF TruthyStr(from_file) /\ Val(from_file) \notin DOMAIN fs
    THEN [raised |-> "FileNotFoundError", value |-> <<>>]
    ELSE
    LET urls_from_file ==
            IF TruthyStr(from_file) THEN StrippedLines(fs[Val(from_file)]) ELSE <<>>
        urls_to_process ==
            IF TruthyText(tiktok_url)
            THEN <<Val(tiktok_url)>> \o urls_from_file
            ELSE urls_from_file
    IN  IF urls_to_process = <<>>
        THEN [raised |-> "ValueError", value |-> <<>>]
        ELSE [raised |-> NoException, value |-> urls_to_process]

_get_urls_to_process(tiktok_url, from_file, fs) ==
    IF TruthyStr(from_file) /\ Val(from_file) \notin DOMAIN fs
    THEN [raised |-> "FileNotFoundError", value |-> <<>>]
    ELSE
    LET urls_from_file ==
            IF TruthyStr(from_file) THEN StrippedLines(fs[Val(from_file)]) ELSE <<>>
        urls_to_process ==
            IF TruthyText(tiktok_url)
            THEN Append(urls_from_file, Val(tiktok_url))
            ELSE urls_from_file
    IN  IF urls_to_process = <<>>
        THEN [raised |-> "ValueError", value |-> <<>>]
        ELSE [raised |-> NoException, value |-> urls_to_process]

\* Lines as the iteration over a text file yields them: every line ends in
\* its line end, except that a non-empty last line may lack it.
LineBodies == SeqsUpTo(UrlChars \cup {" "}, MaxLineLen)

FileContents(n) ==
    LET terminated == SeqsUpTo({Append(b, "\n") : b \in LineBodies}, n)
    IN  terminated \cup
        {[t EXCEPT ![Len(t)] = SubSeq(t[Len(t)], 1, Len(t[Len(t)]) - 1)] :
            t \in {u \in terminated : u # <<>> /\ Len(u[Len(u)]) > 1}}

BatchFile == "urls.txt"
FileNames == <<None, Some(""), Some(BatchFile), Some("missing.txt")>>
UrlArguments == <<None, Some(<<>>), Some(<<"b">>), Some(<<" ", "a">>)>>

InitUrls ==
    /\ pc = "call"
    /\ \E i, j \in 1..4 :
          args = [tiktok_url |-> UrlArguments[i], from_file |-> FileNames[j]]
    /\ \E lines \in FileContents(MaxLines) : files = [f \in {BatchFile} |-> lines]
    /\ ret = <<>>
    /\ raised = NoException
    /\ fetched = <<>>
    /\ dispatched = <<>>
    /\ ydl = <<>>

GetUrlsToProcess ==
    /\ pc = "call"
    /\ LET r == _get_urls_to_process(args.tiktok_url, args.from_file, files)
       IN  /\ ret' = r.value
           /\ raised' = r.raised
           /\ pc' = IF r.raised = NoException THEN "returned" ELSE "raised"
    /\ UNCHANGED <<args, files, fetched, dispatched, ydl>>

NextUrls == GetUrlsToProcess

SpecUrls == InitUrls /\ [][NextUrls]_vars

(***************************************************************************)
(* main.py: download_videos.  Its first statements build the services:     *)
(* ConfigRepository() and then ConfigService(repository=config_repo).      *)
(* ConfigService (domains/config/services.py) defines no __init__, so the  *)
(* call with a keyword argument raises TypeError, on every run, before the *)
(* configuration is loaded; no later statement of download_videos runs.    *)
(***************************************************************************)
MaxRunLines == 1    \* most lines of the batch file in a run of download_videos

\* The keyword parameters the constructor of a class accepts
ConfigRepositoryInitParams == {}
ConfigServiceInitParams == {}

\* cls(**given): a keyword the constructor does not accept is a TypeError
Instantiate(accepted, given) ==
    IF given \subseteq accepted THEN NoException ELSE "TypeError"

RunSettingKwargs ==
    {k \in SettingKwargs : Cardinality(DOMAIN k) <= 1 /\ DOMAIN k \subseteq {"min_likes", "download_archive"}}
    \cup {[min_likes |-> Some(50)]}

RunKwargs ==
    UNION {{[param \in G \cup DOMAIN k |->
                CASE param = "tiktok_url" -> UrlArguments[i]
                  [] param = "from_file" -> FileNames[j]
                  [] param = "metadata_only" -> Some(TRUE)
                  [] OTHER -> k[param]] :
              G \in SUBSET {"tiktok_url", "from_file", "metadata_only"},
              i \in 1..4, j \in 1..4} :
           k \in RunSettingKwargs}

(***************************************************************************)
(* domains/tiktok/schemas.py and repository.py: the metadata fetcher.      *)
(* A Python dict is a function whose DOMAIN is the set of its keys; the    *)
(* values of a raw item are Optional.  VideoMetadata declares id,          *)
(* webpage_url, title, like_count and view_count: it ignores the           *)
(* upload_date keyword it is given and has no upload_date attribute.       *)
(***************************************************************************)
MaxEntries == 3     \* most raw items in the 'entries' of an engine response

EmptyDict == <<>>

\* d.get(key): the value, or None when the key is missing
Get(d, key) == IF key \in DOMAIN d THEN d[key] ELSE None

\* d.update(u)
Update(d, u) == u @@ d

\* Python truthiness of an Optional dict
TruthyDict(o) == o # None /\ DOMAIN Val(o) # {}

VideoMetadataFields == {"id", "webpage_url", "title", "like_count", "view_count"}
VideoInitParams == {"id", "webpage_url", "title", "like_count", "view_count"}

\* VideoMetadata(**kwargs): id and webpage_url are required strings; a
\* keyword that is not a field is ignored
VideoMetadata(kwargs) ==
    IF kwargs["id"] = None \/ kwargs["webpage_url"] = None
    THEN [raised |-> "ValidationError", value |-> EmptyDict]
    ELSE [raised |-> NoException,
          value |-> [id |-> Val(kwargs["id"]),
                     webpage_url |-> Val(kwargs["webpage_url"]),
                     title |-> kwargs["title"],
                     like_count |-> kwargs["like_count"],
                     view_count |-> kwargs["view_count"]]]

_to_domain(schema) ==
    IF ~HasAttr(schema, "upload_date")
    THEN [raised |-> "AttributeError", value |-> EmptyDict]
    ELSE IF Instantiate(VideoInitParams, VideoMetadataFields \cup {"upload_date"}) # NoException
    THEN [raised |-> "TypeError", value |-> EmptyDict]
    ELSE [raised |-> NoException,
          value |-> [id |-> schema.id,
                     webpage_url |-> schema.webpage_url,
                     title |-> schema.title,
                     like_count |-> schema.like_count,
                     view_count |-> schema.view_count,
                     upload_date |-> schema.upload_date]]

_get_ydl_opts(cookies_from_browser, cookies_file) ==
    LET base == [quiet |-> TRUE]
        withBrowser == IF TruthyStr(cookies_from_browser)
                       THEN Update(base, [cookies_from_browser |-> Val(cookies_from_browser)])
                       ELSE base
    IN  IF TruthyStr(cookies_file)
        THEN Update(withBrowser, [cookiefile |-> Val(cookies_file)])
        ELSE withBrowser

\* The body of the loop over video_list: the videos appended for one raw item
VideosOfItem(video_info) ==
    IF ~TruthyDict(video_info) THEN <<>>
    ELSE LET d == Val(video_info)
             schema == VideoMetadata([id |-> Get(d, "id"),
                                      title |-> Get(d, "title"),
                                      like_count |-> Get(d, "like_count"),
                                      view_count |-> Get(d, "view_count"),
                                      webpage_url |-> Get(d, "webpage_url"),
                                      upload_date |-> Get(d, "upload_date")])
         IN  IF schema.raised # NoException THEN <<>>
             ELSE IF _to_domain(schema.value).raised # NoException THEN <<>>
             ELSE <<_to_domain(schema.value).value>>

RECURSIVE VideosOfList(_)
VideosOfList(video_list) ==
    IF video_list = <<>> THEN <<>>
    ELSE VideosOfItem(Head(video_list)) \o VideosOfList(Tail(video_list))

\* response: what ydl.extract_info does for the URL, [raises, info]
fetch_metadata(url, cookies_from_browser, cookies_file, response) ==
    LET ydl_opts == Update(_get_ydl_opts(cookies_from_browser, cookies_file),
                           [extract_flat |-> TRUE, force_generic_extractor |-> TRUE])
        calls == <<[call |-> "YoutubeDL", opts |-> ydl_opts],
                   [call |-> "extract_info", url |-> url, download |-> FALSE]>>
        info == response.info
    IN  IF response.raises
        THEN [raised |-> "DownloadError", value |-> <<>>, calls |-> calls]
        ELSE IF info = None
        THEN [raised |-> "AttributeError", value |-> <<>>, calls |-> calls]
        ELSE LET entries == IF "entries" \in DOMAIN Val(info)
                            THEN Val(info)["entries"] ELSE Some(<<>>)
                 video_list == IF (entries = None \/ Val(entries) = <<>>) /\ TruthyDict(info)
                               THEN <<info>>
                               ELSE Val(entries)
             IN  [raised |-> NoException, value |-> VideosOfList(video_list),
                  calls |-> calls]

\* The raw items of the model: a dict with any of id, webpage_url and
\* like_count; the items of video "b" carry an upload_date as well
RawItem(id, hasUrl, like_count) ==
    LET keys == (IF id # None THEN {"id"} ELSE {})
                \cup (IF hasUrl THEN {"webpage_url"} ELSE {})
                \cup (IF like_count # None THEN {"like_count"} ELSE {})
                \cup (IF id = Some("b") THEN {"upload_date"} ELSE {})
    IN  [k \in keys |->
            CASE k = "id" -> id
              [] k = "webpage_url" ->
                    Some("https://tiktok.example/" \o (IF id = None THEN "x" ELSE Val(id)))
              [] k = "like_count" -> like_count
              [] k = "upload_date" -> Some("20240101")]

RawDicts == {RawItem(id, u, lc) : id \in Opt(VideoIds), u \in BOOLEAN, lc \in Opt(Counts)}
RawItems == Opt(RawDicts)

\* A collection response, with or without an id and webpage_url of its own
Playlist(entries, own) ==
    IF own
    THEN [entries |-> entries, id |-> Some("pl"),
          webpage_url |-> Some("https://tiktok.example/pl")]
    ELSE [entries |-> entries]

Infos ==
    RawDicts \cup {Playlist(e, own) : e \in Opt(SeqsUpTo(RawItems, MaxEntries)), own \in BOOLEAN}

Responses ==
    {[raises |-> TRUE, info |-> None], [raises |-> FALSE, info |-> None]}
    \cup {[raises |-> FALSE, info |-> Some(i)] : i \in Infos}

InitFetch ==
    /\ pc = "call"
    /\ args \in [url : {"https://tiktok.example/@user"},
                 cookies_from_browser : {None, Some("chrome")},
                 cookies_file : {None, Some("/c.txt")},
                 response : Responses]
    /\ files = <<>>
    /\ ret = <<>>
    /\ raised = NoException
    /\ fetched = <<>>
    /\ dispatched = <<>>
    /\ ydl = <<>>

FetchMetadata ==
    /\ pc = "call"
    /\ LET r == fetch_metadata(args.url, args.cookies_from_browser,
                               args.cookies_file, args.response)
       IN  /\ ret' = r.value
           /\ raised' = r.raised
           /\ ydl' = ydl \o r.calls
           /\ pc' = IF r.raised = NoException THEN "returned" ELSE "raised"
    /\ UNCHANGED <<args, files, fetched, dispatched>>

NextFetch == FetchMetadata

SpecFetch == InitFetch /\ [][NextFetch]_vars

(***************************************************************************)
(* domains/tiktok/repository.py: TikTokRepository.download_videos, the     *)
(* download dispatcher.  It is called with keyword arguments; a keyword    *)
(* that is not a parameter of the method is a TypeError.                   *)
(***************************************************************************)
DispatchRequired == {"videos", "output_path", "transcript_language"}

DispatchOptional ==
    {"concurrent_downloads", "min_sleep_interval", "max_sleep_interval",
     "cookies_from_browser", "cookies_file"}

DispatchParams == DispatchRequired \cup DispatchOptional

DispatchDefault(param) ==
    CASE param = "concurrent_downloads" -> Some(1)
      [] OTHER -> None

OutputTemplate == "/%(title)s [%(id)s].%(ext)s"

\* [v.webpage_url for v in videos]
WebpageUrls(videos) == [i \in 1..Len(videos) |-> videos[i].webpage_url]

\* The dispatcher writing subtitles whether or not a language is given
SubtitleOptsAlways(ydl_opts, transcript_language) ==
    Update(ydl_opts, [writesubtitles |-> TRUE, writeautomaticsub |-> TRUE,
                      subtitleslangs |-> <<transcript_language>>])

\* lines 145-150: the subtitle options
SubtitleOpts(ydl_opts, transcript_language) ==
    IF TruthyStr(transcript_language)
    THEN Update(ydl_opts, [writesubtitles |-> TRUE, writeautomaticsub |-> TRUE,
                           subtitleslangs |-> <<Val(transcript_language)>>])
    ELSE ydl_opts

\* kwargs: the keyword arguments of the call; download_raises: whether the
\* engine's download fails.  The result carries the engine calls made.
repo_download_videos(kwargs, download_raises) ==
    IF ~(DOMAIN kwargs \subseteq DispatchParams) \/ ~(DispatchRequired \subseteq DOMAIN kwargs)
    THEN [raised |-> "TypeError", calls |-> <<>>]
    ELSE
    LET P(param) == IF param \in DOMAIN kwargs THEN kwargs[param]
                    ELSE DispatchDefault(param)
        videos == kwargs["videos"]
        base == Update(_get_ydl_opts(P("cookies_from_browser"), P("cookies_file")),
                       [outtmpl |-> Val(P("output_path")) \o OutputTemplate,
                        writethumbnail |-> TRUE])
        subs == SubtitleOpts(base, P("transcript_language"))
        conc == IF Val(P("concurrent_downloads")) > 1
                THEN Update(subs, [concurrent_fragment_downloads |->
                                       Val(P("concurrent_downloads"))])
                ELSE subs
        minSleep == IF TruthyInt(P("min_sleep_interval"))
                    THEN Update(conc, [sleep_interval |-> Val(P("min_sleep_interval"))])
                    ELSE conc
        ydl_opts == IF TruthyInt(P("max_sleep_interval"))
                    THEN Update(minSleep, [max_sleep_interval |->
                                               Val(P("max_sleep_interval"))])
                    ELSE minSleep
        calls == <<[call |-> "YoutubeDL", opts |-> ydl_opts],
                   [call |-> "download", urls |-> WebpageUrls(videos)]>>
    IN  IF videos = <<>>
        THEN [raised |-> NoException, calls |-> <<>>]
        ELSE IF P("concurrent_downloads") = None
        THEN [raised |-> "TypeError", calls |-> <<>>]
        ELSE IF download_raises
        THEN [raised |-> "DownloadError", calls |-> calls]
        ELSE [raised |-> NoException, calls |-> calls]

DispatchVideos == {Video(id, Some(1), None) : id \in VideoIds}

\* The values a caller passes for a parameter in the model; pick 0 leaves
\* an optional parameter out
DispatchValuesOf(param) ==
    CASE param = "output_path" -> <<Some("/out"), Some(".")>>
      [] param = "transcript_language" -> <<None, Some(""), Some("es")>>
      [] param = "concurrent_downloads" -> <<None, Some(1), Some(3)>>
      [] param = "min_sleep_interval" -> <<Some(0), Some(2)>>
      [] param = "max_sleep_interval" -> <<Some(2)>>
      [] param = "cookies_from_browser" -> <<Some("chrome")>>
      [] param = "cookies_file" -> <<Some("/c.txt")>>
      [] param = "download_archive_path" -> <<Some("/arch.txt")>>

DispatchPicked == DispatchOptional \cup {"output_path", "transcript_language", "download_archive_path"}

DispatchKwargs ==
    {[param \in {"videos"} \cup {k \in DispatchPicked : pick[k] > 0} |->
        IF param = "videos" THEN videos ELSE DispatchValuesOf(param)[pick[param]]] :
        videos \in SeqsUpTo(DispatchVideos, MaxVideos),
        pick \in {p \in [DispatchPicked -> 0..3] :
                     /\ \A k \in DispatchPicked : p[k] <= Len(DispatchValuesOf(k))
                     /\ p["output_path"] > 0
                     /\ p["transcript_language"] > 0}}

InitDispatch ==
    /\ pc = "call"
    /\ args \in [kwargs : DispatchKwargs, download_raises : BOOLEAN]
    /\ files = <<>>
    /\ ret = <<>>
    /\ raised = NoException
    /\ fetched = <<>>
    /\ dispatched = <<>>
    /\ ydl = <<>>

RepoDownloadVideos ==
    /\ pc = "call"
    /\ LET r == repo_download_videos(args.kwargs, args.download_raises)
       IN  /\ raised' = r.raised
           /\ ydl' = ydl \o r.calls
           /\ pc' = IF r.raised = NoException THEN "returned" ELSE "raised"
    /\ UNCHANGED <<args, files, ret, fetched, dispatched>>

NextDispatch == RepoDownloadVideos

SpecDispatch == InitDispatch /\ [][NextDispatch]_vars

(***************************************************************************)
(* domains/config: the two loaders of the settings file.  A parsed INI     *)
(* file is a dict from section names to dicts from keys to raw values; a   *)
(* raw value the loaders parse (integers, booleans) is a character         *)
(* sequence, a raw value they pass along is a string.                      *)
(***************************************************************************)
MaxKeys == 2        \* most keys in a section of the settings file

ConfigFile == "config.ini"

\* configparser.ConfigParser().read(path): a file that does not exist
\* gives an empty dataset
ParserRead(path, fs) == IF path \in DOMAIN fs THEN fs[path] ELSE EmptyDict

Digits == <<"0", "1", "2", "3", "4", "5", "6", "7", "8", "9">>

IsDigit(c) == \E d \in 1..Len(Digits) : Digits[d] = c

DigitValue(c) == (CHOOSE d \in 1..Len(Digits) : Digits[d] = c) - 1

RECURSIVE IntOf(_)
IntOf(raw) ==
    IF raw = <<>> THEN 0
    ELSE 10 * IntOf(SubSeq(raw, 1, Len(raw) - 1)) + DigitValue(raw[Len(raw)])

\* section.getint(key): int(value)
getint(raw) ==
    IF raw # <<>> /\ \A i \in 1..Len(raw) : IsDigit(raw[i])
    THEN [raised |-> NoException, value |-> Some(IntOf(raw))]
    ELSE [raised |-> "ValueError", value |-> None]

LowerChar(c) ==
    CASE c = "O" -> "o"
      [] c = "N" -> "n"
      [] OTHER -> c

Lower(raw) == [i \in 1..Len(raw) |-> LowerChar(raw[i])]

TrueStates == {<<"1">>, <<"y", "e", "s">>, <<"t", "r", "u", "e">>, <<"o", "n">>}
FalseStates == {<<"0">>, <<"n", "o">>, <<"f", "a", "l", "s", "e">>, <<"o", "f", "f">>}

\* section.getboolean(key): a lookup of value.lower() in BOOLEAN_STATES
getboolean(raw) ==
    IF Lower(raw) \in TrueStates THEN [raised |-> NoException, value |-> Some(TRUE)]
    ELSE IF Lower(raw) \in FalseStates THEN [raised |-> NoException, value |-> Some(FALSE)]
    ELSE [raised |-> "ValueError", value |-> None]

\* The conversion a loader applies to the raw value of a key
Converted(key, raw) ==
    IF key \in {"min_likes", "min_views", "concurrent_downloads",
                "min_sleep_interval", "max_sleep_interval"}
    THEN getint(raw)
    ELSE IF key = "transcripts" THEN getboolean(raw)
    ELSE [raised |-> NoException, value |-> Some(raw)]

\* The keys of a section a loader reads, converted; the first conversion
\* that fails ends the load
LoadKeys(read, section) ==
    LET present == read \cap DOMAIN section
    IN  IF \E key \in present : Converted(key, section[key]).raised # NoException
        THEN [raised |-> "ValueError", value |-> EmptyDict]
        ELSE [raised |-> NoException,
              value |-> [key \in present |-> Converted(key, section[key]).value]]

RepositoryKeys ==
    {"output_path", "min_likes", "min_views", "transcripts", "transcript_language",
     "concurrent_downloads", "min_sleep_interval", "max_sleep_interval"}

ServiceKeys == {"output_path", "min_likes", "min_views", "transcripts"}

\* Config(**settings): a field that is not given is None
ConfigOf(settings) == [f \in ConfigFields |-> Get(settings, f)]

\* ConfigRepository.load_from_path
load_from_path(path, fs) ==
    LET parser == ParserRead(path, fs)
        settings == IF "defaults" \in DOMAIN parser
                    THEN LoadKeys(RepositoryKeys, parser["defaults"])
                    ELSE [raised |-> NoException, value |-> EmptyDict]
    IN  IF settings.raised # NoException
        THEN settings
        ELSE [raised |-> NoException, value |-> ConfigOf(settings.value)]

\* ConfigService.load_config: the result is a dict, not a Config
load_config(path, fs) ==
    LET parser == ParserRead(path, fs)
    IN  IF "defaults" \notin DOMAIN parser
        THEN [raised |-> NoException, value |-> EmptyDict]
        ELSE LoadKeys(ServiceKeys, parser["defaults"])

\* The keys of the settings files of the model, and the raw values of each
SectionKeys == ConfigFields \cup {"download_archive", "unknown"}

RawValuesOf(key) ==
    CASE key \in {"min_likes", "min_views", "concurrent_downloads",
                  "min_sleep_interval", "max_sleep_interval"} ->
              <<<<"5">>, <<"1", "2">>, <<"x">>>>
      [] key = "transcripts" -> <<<<"O", "n">>, <<"n", "o">>, <<"x">>>>
      [] OTHER -> <<"/cfg">>

Sections ==
    UNION {{[key \in keys |-> RawValuesOf(key)[pick[key]]] :
                pick \in {p \in [keys -> 1..3] :
                             \A key \in keys : p[key] <= Len(RawValuesOf(key))}} :
            keys \in {S \in SUBSET SectionKeys : Cardinality(S) <= MaxKeys}}

ParsedFiles ==
    {EmptyDict}
    \cup {[name \in {"other"} |-> section] : section \in {[output_path |-> "/cfg"]}}
    \cup {[name \in {"defaults"} |-> section] : section \in Sections}
    \cup {[name \in {"defaults", "other"} |-> section] : section \in Sections}

InitConfig ==
    /\ pc = "call"
    /\ args \in [path : {ConfigFile, "missing.ini"}]
    /\ \E parsed \in ParsedFiles : files = [f \in {ConfigFile} |-> parsed]
    /\ ret = <<>>
    /\ raised = NoException
    /\ fetched = <<>>
    /\ dispatched = <<>>
    /\ ydl = <<>>

LoadFromPath ==
    /\ pc = "call"
    /\ LET r == load_from_path(args.path, files)
       IN  /\ ret' = r.value
           /\ raised' = r.raised
           /\ pc' = IF r.raised = NoException THEN "loaded_record" ELSE "raised"
    /\ UNCHANGED <<args, files, fetched, dispatched, ydl>>

LoadConfig ==
    /\ pc = "call"
    /\ LET r == load_config(args.path, files)
       IN  /\ ret' = r.value
           /\ raised' = r.raised
           /\ pc' = IF r.raised = NoException THEN "loaded_dict" ELSE "raised"
    /\ UNCHANGED <<args, files, fetched, dispatched, ydl>>

NextConfig == LoadFromPath \/ LoadConfig

SpecConfig == InitConfig /\ [][NextConfig]_vars

(***************************************************************************)
(* main.py: download_videos, the whole run.  engine is what the wrapped    *)
(* engine does in the run: extract_info fails for the URLs in engine.fails *)
(* and returns engine.info for every other URL.                            *)
(***************************************************************************)
\* A dict has keys, not attributes: none of the names _resolve_settings
\* reads is an attribute of the dict load_config returns
DictAsObject(d) == EmptyDict

\* lines 181-194: the fetch loop; a fetch that raises adds nothing
RECURSIVE FetchAll(_, _, _)
FetchAll(urls, settings, engine) ==
    IF urls = <<>> THEN [videos |-> <<>>, calls |-> <<>>]
    ELSE LET response == IF Head(urls) \in engine.fails
                         THEN [raises |-> TRUE, info |-> None]
                         ELSE [raises |-> FALSE, info |-> engine.info]
             first == fetch_metadata(Head(urls), settings.cookies_from_browser,
                                     settings.cookies_file, response)
             rest == FetchAll(Tail(urls), settings, engine)
         IN  [videos |-> first.value \o rest.videos,
              calls |-> first.calls \o rest.calls]

\* lines 207-220: the keyword arguments of the call of the dispatcher
DispatchCall(filtered_videos, settings) ==
    [videos |-> filtered_videos,
     output_path |-> settings.output_path,
     transcript_language |-> settings.transcript_language,
     concurrent_downloads |-> settings.concurrent_downloads,
     min_sleep_interval |-> settings.min_sleep_interval,
     max_sleep_interval |-> settings.max_sleep_interval,
     cookies_from_browser |-> settings.cookies_from_browser,
     cookies_file |-> settings.cookies_file,
     download_archive_path |-> settings.download_archive]

download_videos(kwargs, fs, engine) ==
    LET Failed(exception) ==
            [raised |-> exception, value |-> <<>>, fetched |-> <<>>,
             dispatched |-> <<>>, calls |-> <<>>]
        config == load_config(Val(Param(kwargs, "config_path")), fs)
        settings == _resolve_settings(DictAsObject(config.value),
                        Param(kwargs, "output_path"), Param(kwargs, "min_likes"),
                        Param(kwargs, "min_views"), Param(kwargs, "download_transcripts"),
                        Param(kwargs, "transcript_language"),
                        Param(kwargs, "concurrent_downloads"),
                        Param(kwargs, "min_sleep_interval"),
                        Param(kwargs, "max_sleep_interval"),
                        Param(kwargs, "cookies_from_browser"),
                        Param(kwargs, "cookies_file"), Param(kwargs, "download_archive"))
        urls == _get_urls_to_process(Param(kwargs, "tiktok_url"),
                                     Param(kwargs, "from_file"), fs)
        all == FetchAll(urls.value, settings.value, engine)
        filtered == apply_filters(all.videos, settings.value.min_likes,
                                  settings.value.min_views, None)
        dispatch == DispatchCall(filtered.value, settings.value)
        download == repo_download_videos(dispatch, FALSE)
    IN  IF Instantiate(ConfigRepositoryInitParams, {}) # NoException
        THEN Failed(Instantiate(ConfigRepositoryInitParams, {}))
        ELSE IF Instantiate(ConfigServiceInitParams, {"repository"}) # NoException
        THEN Failed(Instantiate(ConfigServiceInitParams, {"repository"}))
        ELSE IF config.raised # NoException THEN Failed(config.raised)
        ELSE IF settings.raised # NoException THEN Failed(settings.raised)
        ELSE IF urls.raised # NoException THEN Failed(urls.raised)
        ELSE IF filtered.raised # NoException
        THEN [Failed(filtered.raised) EXCEPT !.fetched = urls.value, !.calls = all.calls]
        ELSE IF TruthyBool(Param(kwargs, "metadata_only")) \/ filtered.value = <<>>
        THEN [raised |-> NoException, value |-> filtered.value, fetched |-> urls.value,
              dispatched |-> <<>>, calls |-> all.calls]
        ELSE [raised |-> download.raised,
              value |-> IF download.raised = NoException THEN filtered.value ELSE <<>>,
              fetched |-> urls.value,
              dispatched |-> <<dispatch>>,
              calls |-> all.calls \o download.calls]

\* The two-entry collection of the end-to-end scenario, and the other
\* engine responses of the runs of the model
TwoEntries ==
    Playlist(Some(<<Some(RawItem(Some("a"), TRUE, Some(10))),
                    Some(RawItem(Some("b"), TRUE, Some(200)))>>), FALSE)

RunInfos == {Some(TwoEntries), Some(RawItem(Some("a"), TRUE, Some(1))), Some(Playlist(Some(<<>>), FALSE))}

\* The settings files of the runs of the model that have one: a key that
\* does not parse as an integer, or as a boolean
RunConfigs ==
    {[name \in {"defaults"} |-> section] :
        section \in {[min_likes |-> <<"x">>], [transcripts |-> <<"x">>],
                     [concurrent_downloads |-> <<"x">>]}}

RunEngines == [fails : {{}, {<<"b">>}}, info : RunInfos]

InitRun ==
    /\ pc = "call"
    /\ args \in [kwargs : RunKwargs, engine : RunEngines]
    /\ \E lines \in FileContents(MaxRunLines) :
          \/ files = [f \in {BatchFile} |-> lines]
          \/ \E parsed \in RunConfigs :
                files = [f \in {BatchFile, ConfigFile} |->
                            IF f = BatchFile THEN lines ELSE parsed]
    /\ ret = <<>>
    /\ raised = NoException
    /\ fetched = <<>>
    /\ dispatched = <<>>
    /\ ydl = <<>>

DownloadVideos ==
    /\ pc = "call"
    /\ LET r == download_videos(args.kwargs, files, args.engine)
       IN  /\ ret' = r.value
           /\ raised' = r.raised
           /\ fetched' = r.fetched
           /\ dispatched' = r.dispatched
           /\ ydl' = ydl \o r.calls
           /\ pc' = IF r.raised = NoException THEN "returned" ELSE "raised"
    /\ UNCHANGED <<args, files>>

NextRun == DownloadVideos

SpecRun == InitRun /\ [][NextRun]_vars

(***************************************************************************)
(* cli.py: main, the command of the command-line interface.  A line of     *)
(* output is a record: the stream, the fixed text, and the value formatted *)
(* into it.  core is the function bound to the name download_videos in     *)
(* cli.py: None for the one of main.py, or a stand-in with a fixed         *)
(* outcome, as the tests of the command bind one.                          *)
(***************************************************************************)
Echo(text, detail) == [err |-> FALSE, text |-> text, detail |-> detail]
EchoErr(text, detail) == [err |-> TRUE, text |-> text, detail |-> detail]

\* lines 17-33: _display_metadata
RECURSIVE VideoLines(_)
VideoLines(videos) ==
    IF videos = <<>> THEN <<>>
    ELSE LET video == Head(videos)
         IN  <<Echo("--------------------", <<>>),
               Echo("ID:          ", <<video.id>>),
               Echo("Title:       ", <<video.title>>),
               Echo("Likes:       ", <<video.like_count>>),
               Echo("Views:       ", <<video.view_count>>),
               Echo("URL:         ", <<video.webpage_url>>)>>
             \o VideoLines(Tail(videos))

_display_metadata(videos) ==
    IF videos = <<>> THEN <<Echo("No videos to display.", <<>>)>>
    ELSE VideoLines(videos)

\* lines 87-102: every parameter of download_videos but config_path is
\* passed; the options the model leaves out have their defaults
CoreKwargs(options) ==
    [tiktok_url |-> options.tiktok_url,
     from_file |-> options.from_file,
     output_path |-> None,
     min_likes |-> options.min_likes,
     min_views |-> None,
     download_transcripts |-> None,
     transcript_language |-> Some("en-US"),
     metadata_only |-> Some(options.metadata_only),
     concurrent_downloads |-> Some(1),
     min_sleep_interval |-> None,
     max_sleep_interval |-> None,
     cookies_from_browser |-> None,
     cookies_file |-> None,
     download_archive |-> None]

\* The outcome of a download_videos that makes no engine call
StandIn(exception, videos) ==
    [raised |-> exception, value |-> videos, fetched |-> <<>>,
     dispatched |-> <<>>, calls |-> <<>>]

NotCalled == StandIn(NoException, <<>>)

\* lines 87-102: the call of download_videos
CallCore(options, fs, engine, core) ==
    IF core = None THEN download_videos(CoreKwargs(options), fs, engine)
    ELSE Val(core)

\* The body of the command reporting every exception as an unexpected error
ReportNoUsageError(options, r) ==
    IF r.raised # NoException
    THEN [output |-> <<EchoErr("An unexpected error occurred: ", <<r.raised>>)>>,
          exit_code |-> 1, core |-> r]
    ELSE [output |-> <<Echo("Found %d videos that match the criteria.", <<Len(r.value)>>)>>,
          exit_code |-> 0, core |-> r]

\* lines 83-119: the body of the command around the call whose outcome is r
Report(options, r) ==
    LET fetching == IF TruthyText(options.tiktok_url) \/ TruthyStr(options.from_file)
                    THEN <<Echo("Fetching metadata...", <<>>)>> ELSE <<>>
        found == <<Echo("Found %d videos that match the criteria.", <<Len(r.value)>>)>>
    IN  IF r.raised = "ValueError"
        THEN [output |-> fetching \o <<EchoErr("Error: ", <<r.raised>>)>>,
              exit_code |-> 1, core |-> r]
        ELSE IF r.raised # NoException
        THEN [output |-> fetching
                         \o <<EchoErr("An unexpected error occurred: ", <<r.raised>>)>>,
              exit_code |-> 1, core |-> r]
        ELSE IF options.metadata_only
        THEN [output |-> fetching \o found \o _display_metadata(r.value),
              exit_code |-> 0, core |-> r]
        ELSE IF r.value = <<>>
        THEN [output |-> fetching \o found \o <<Echo("No videos to download.", <<>>)>>,
              exit_code |-> 0, core |-> r]
        ELSE [output |-> fetching \o found
                         \o <<Echo("Downloading %d video(s)...", <<Len(r.value)>>),
                              Echo("Download complete.", <<>>)>>,
              exit_code |-> 0, core |-> r]

\* lines 36-119; click rejects the path of a batch file that does not exist
\* (line 38) before the body runs, with exit status 2
cli_main(options, fs, engine, core) ==
    IF TruthyStr(options.from_file) /\ Val(options.from_file) \notin DOMAIN fs
    THEN [output |-> <<EchoErr("Error: Invalid value for '--from-file'", <<>>)>>,
          exit_code |-> 2,
          core |-> NotCalled]
    ELSE Report(options, CallCore(options, fs, engine, core))

CliOptions ==
    [tiktok_url : {None, Some(<<"b">>)},
     from_file : {None, Some(BatchFile), Some("missing.txt")},
     min_likes : {None, Some(50)},
     metadata_only : BOOLEAN]

\* The outcomes of the stand-ins for download_videos
CoreStandIns ==
    {StandIn("ValueError", <<>>), StandIn("Exception", <<>>),
     StandIn(NoException, <<>>), StandIn(NoException, <<Video("a", Some(1), None)>>)}

InitCli ==
    /\ pc = "call"
    /\ args \in [options : CliOptions, engine : RunEngines, core : Opt(CoreStandIns)]
    /\ \E lines \in FileContents(MaxRunLines) : files = [f \in {BatchFile} |-> lines]
    /\ ret = <<>>
    /\ raised = NoException
    /\ fetched = <<>>
    /\ dispatched = <<>>
    /\ ydl = <<>>

CliMain ==
    /\ pc = "call"
    /\ LET r == cli_main(args.options, files, args.engine, args.core)
       IN  /\ ret' = [output |-> r.output, exit_code |-> r.exit_code]
           /\ raised' = r.core.raised
           /\ fetched' = r.core.fetched
           /\ dispatched' = r.core.dispatched
           /\ ydl' = ydl \o r.core.calls
           /\ pc' = "exited"
    /\ UNCHANGED <<args, files>>

NextCli == CliMain

SpecCli == InitCli /\ [][NextCli]_vars

(***************************************************************************)
(* Claims about settings resolution, checked under SpecResolve.            *)
(***************************************************************************)
\* The call-time value of a parameter, and whether the caller gave one
Override(param) == Param(args.kwargs, param)
Supplied(param) == param \in DOMAIN args.kwargs /\ args.kwargs[param] # None

\* The config's value of a field, absent when the config has no such field
ConfigValue(field) ==
    IF HasAttr(args.config, field) THEN args.config[field] ELSE None

\* override, else config, else the built-in default
ThreeTier(param, field, default) ==
    IF Supplied(param) THEN args.kwargs[param]
    ELSE IF ConfigValue(field) # None THEN ConfigValue(field)
    ELSE default

TranscriptsDisabled ==
    \/ Override("download_transcripts") = Some(FALSE)
    \/ /\ Override("download_transcripts") = None
       /\ ConfigValue("transcripts") \in {None, Some(FALSE)}

TranscriptsEnabled ==
    \/ Override("download_transcripts") = Some(TRUE)
    \/ /\ Override("download_transcripts") = None
       /\ ConfigValue("transcripts") = Some(TRUE)

\* C3: resolution yields settings in which min_likes and min_views are the
\* override when the override is present, else the config's value, else absent.
C3_LikesViewsPrecedence ==
    pc # "call" =>
        /\ raised = NoException
        /\ \A f \in {"min_likes", "min_views"} :
              ret[f] = IF Override(f) # None THEN Override(f)
                       ELSE ConfigValue(f)

\* C4: resolution yields settings in which an override that is present but
\* falsy wins over config and default: 0 for min_likes, min_views and the two
\* sleep intervals, False for transcripts, the empty string for output_path,
\* cookies_from_browser, cookies_file and the archive path.
C4_FalsyOverrideWins ==
    pc # "call" =>
        /\ raised = NoException
        /\ \A f \in {"min_likes", "min_views", "min_sleep_interval",
                     "max_sleep_interval"} :
              Override(f) = Some(0) => ret[f] = Some(0)
        /\ Override("download_transcripts") = Some(FALSE) =>
              ret.transcript_language = None
        /\ \A f \in {"output_path", "cookies_from_browser", "cookies_file",
                     "download_archive"} :
              Override(f) = Some("") => ret[f] = Some("")

\* C5: when the caller of download_videos does not supply
\* concurrent_downloads the resolved value is the config's when it has one
\* and 1 otherwise; every field resolves as override, else config, else default.
C5_ThreeTierEveryField ==
    pc # "call" =>
        /\ raised = NoException
        /\ "concurrent_downloads" \notin DOMAIN args.kwargs =>
              ret.concurrent_downloads =
                  IF ConfigValue("concurrent_downloads") # None
                  THEN ConfigValue("concurrent_downloads") ELSE Some(1)
        /\ ret.concurrent_downloads =
              ThreeTier("concurrent_downloads", "concurrent_downloads", Some(1))
        /\ ret.output_path = ThreeTier("output_path", "output_path", Some("."))
        /\ \A f \in {"min_likes", "min_views", "min_sleep_interval",
                     "max_sleep_interval", "cookies_from_browser",
                     "cookies_file"} :
              ret[f] = ThreeTier(f, f, None)

\* C6: whenever transcripts resolve to disabled, resolution yields settings
\* whose transcript_language is absent.
C6_DisabledForcesNoLanguage ==
    (pc # "call" /\ TranscriptsDisabled) =>
        /\ raised = NoException
        /\ ret.transcript_language = None

\* C7: whenever transcripts resolve to enabled, resolution yields settings
\* whose transcript_language is the supplied override, else the config's
\* language, else 'en-US', and is never absent.
C7_EnabledLanguage ==
    (pc # "call" /\ TranscriptsEnabled) =>
        /\ raised = NoException
        /\ ret.transcript_language # None
        /\ ret.transcript_language =
              ThreeTier("transcript_language", "transcript_language",
                        Some("en-US"))

\* C8: resolution succeeds for every config and yields as archive path the
\* override when supplied, else the config's archive path, else the resolved
\* output_path (override, else config, else '.') joined with the archive name.
C8_ArchivePath ==
    pc # "call" =>
        /\ raised = NoException
        /\ ret.download_archive =
              IF Supplied("download_archive") THEN args.kwargs["download_archive"]
              ELSE IF ConfigValue("download_archive") # None
                   THEN ConfigValue("download_archive")
              ELSE Some(PathJoin(
                        Val(ThreeTier("output_path", "output_path", Some("."))),
                        ArchiveFileName))

(***************************************************************************)
(* Claims about apply_filters, checked under SpecFilter.                   *)
(***************************************************************************)
Survives(r, min_likes, min_views) ==
    /\ (min_likes = None \/ (r.like_count # None /\ Val(r.like_count) >= Val(min_likes)))
    /\ (min_views = None \/ (r.view_count # None /\ Val(r.view_count) >= Val(min_views)))

\* C1: a call of apply_filters with thresholds (min_likes, min_views) and no
\* date criterion returns without error exactly the input records r with
\* (min_likes absent or r.like_count present and >= min_likes) and
\* (min_views absent or r.view_count present and >= min_views); a record with
\* an absent like_count is excluded whenever min_likes is supplied, even 0.
C1_ConjunctiveFilter ==
    (pc # "call" /\ args.process_after_date = None) =>
        /\ pc = "returned"
        /\ raised = NoException
        /\ LET Keep(r) == Survives(r, args.min_likes, args.min_views)
           IN  ret = SelectSeq(args.videos, Keep)
        /\ (args.min_likes # None =>
               \A i \in 1..Len(ret) : ret[i].like_count # None)

C1_Witness ==
    /\ pc = "returned"
    /\ args.process_after_date = None
    /\ args.min_likes = Some(0)
    /\ args.min_views = Some(1)
    /\ \E i \in 1..Len(args.videos) : args.videos[i].like_count = None
    /\ \E i \in 1..Len(args.videos) :
          args.videos[i].like_count # None /\ args.videos[i].view_count = Some(0)
    /\ Len(ret) = 1

\* C2: the result of apply_filters is a subsequence of its input: there is a
\* strictly increasing map from the positions of the result to positions of
\* the input that carries every returned record to an equal input record.
C2_Subsequence ==
    pc = "returned" =>
        \E f \in [1..Len(ret) -> 1..Len(args.videos)] :
            /\ \A i \in 1..Len(ret) : ret[i] = args.videos[f[i]]
            /\ \A i, j \in 1..Len(ret) : i < j => f[i] < f[j]

C2_Witness ==
    /\ pc = "returned"
    /\ Len(args.videos) = 3
    /\ Len(ret) = 2
    /\ ret[1] # ret[2]
    /\ ret[1] = args.videos[1]
    /\ ret[2] = args.videos[3]

(***************************************************************************)
(* Claims about the URL collector, checked under SpecUrls.                 *)
(***************************************************************************)
IsBlank(line) == \A i \in 1..Len(line) : line[i] \in Whitespace

\* The line between its first and its last character that is not whitespace
Trimmed(line) ==
    LET solid == {i \in 1..Len(line) : line[i] \notin Whitespace}
        first == CHOOSE i \in solid : \A j \in solid : i <= j
        last == CHOOSE i \in solid : \A j \in solid : j <= i
    IN  SubSeq(line, first, last)

NonBlankLines(lines) ==
    LET Solid(line) == ~IsBlank(line) IN SelectSeq(lines, Solid)

\* C9: the URL collector returns the non-blank lines of the batch file, each
\* trimmed of surrounding whitespace, in file order, followed by the single
\* URL argument when one is given, and nothing else.
C9_CollectorOrder ==
    pc = "returned" =>
        LET lines == IF TruthyStr(args.from_file)
                     THEN NonBlankLines(files[Val(args.from_file)]) ELSE <<>>
            fromFile == [i \in 1..Len(lines) |-> Trimmed(lines[i])]
        IN  ret = IF TruthyText(args.tiktok_url)
                  THEN fromFile \o <<Val(args.tiktok_url)>>
                  ELSE fromFile

C9_Witness ==
    /\ pc = "returned"
    /\ args.from_file = Some(BatchFile)
    /\ args.tiktok_url = Some(<<"b">>)
    /\ files[BatchFile] = <<<<" ", "a", "\n">>, <<"\n">>, <<"a", "b", "\n">>>>
    /\ ret = <<<<"a">>, <<"a", "b">>, <<"b">>>>

(***************************************************************************)
(* Claims about a run of download_videos, checked under SpecRun.           *)
(***************************************************************************)
\* Neither a single URL nor a batch file with a non-blank line was given
NoTarget ==
    /\ ~TruthyText(Param(args.kwargs, "tiktok_url"))
    /\ \/ ~TruthyStr(Param(args.kwargs, "from_file"))
       \/ /\ Param(args.kwargs, "from_file") = Some(BatchFile)
          /\ \A i \in 1..Len(files[BatchFile]) : IsBlank(files[BatchFile][i])

\* C10: a run of download_videos given no target ends in the usage error
\* ValueError, having performed no metadata fetch and no download dispatch.
C10_NoTargetIsUsageError ==
    (pc # "call" /\ NoTarget) =>
        /\ pc = "raised"
        /\ raised = "ValueError"
        /\ fetched = <<>>
        /\ dispatched = <<>>

(***************************************************************************)
(* Claims about the metadata fetcher, checked under SpecFetch.             *)
(***************************************************************************)
\* A raw item that is a non-empty dict carrying an id and a webpage_url
WellFormed(item) ==
    /\ TruthyDict(item)
    /\ Get(Val(item), "id") # None
    /\ Get(Val(item), "webpage_url") # None

\* The record list matches the raw items one for one, in order
RecordsOf(records, items) ==
    /\ Len(records) = Len(items)
    /\ \A i \in 1..Len(items) :
          /\ records[i].id = Val(Val(items[i])["id"])
          /\ records[i].webpage_url = Val(Val(items[i])["webpage_url"])
          /\ records[i].like_count = Get(Val(items[i]), "like_count")

\* The response is a dict with a non-empty 'entries' list
HasEntries ==
    /\ ~args.response.raises
    /\ args.response.info # None
    /\ "entries" \in DOMAIN Val(args.response.info)
    /\ Val(args.response.info)["entries"] # None
    /\ Val(Val(args.response.info)["entries"]) # <<>>

\* The response is a single item: a non-empty dict without 'entries'
IsSingleItem ==
    /\ ~args.response.raises
    /\ TruthyDict(args.response.info)
    /\ "entries" \notin DOMAIN Val(args.response.info)

\* C11: fetch_metadata on a collection drops exactly the raw items that are
\* empty or None or lack an id or a webpage_url, and returns one record for
\* every other raw item, in the order of the raw items.
C11_DropsOnlyMalformed ==
    (pc # "call" /\ HasEntries) =>
        /\ pc = "returned"
        /\ LET entries == Val(Val(args.response.info)["entries"])
           IN  RecordsOf(ret, SelectSeq(entries, WellFormed))

\* C12: fetch_metadata turns both response shapes into a list: the records
\* of the entries for a collection, and exactly one record for a single
\* non-collection response that has an id and a webpage_url.
C12_BothShapes ==
    pc # "call" =>
        /\ HasEntries =>
              /\ pc = "returned"
              /\ Len(ret) = Len(SelectSeq(Val(Val(args.response.info)["entries"]),
                                          WellFormed))
        /\ (IsSingleItem /\ WellFormed(args.response.info)) =>
              /\ pc = "returned"
              /\ RecordsOf(ret, <<args.response.info>>)

(***************************************************************************)
(* Claims about the fetch, filter and dispatch steps of a run of           *)
(* download_videos, checked under SpecRun.                                 *)
(***************************************************************************)
\* The URL list of the run: the trimmed non-blank lines of the batch file,
\* then the single URL
RunUrls ==
    LET lines == IF Param(args.kwargs, "from_file") = Some(BatchFile)
                 THEN NonBlankLines(files[BatchFile]) ELSE <<>>
    IN  [i \in 1..Len(lines) |-> Trimmed(lines[i])]
        \o (IF TruthyText(Param(args.kwargs, "tiktok_url"))
            THEN <<Val(Param(args.kwargs, "tiktok_url"))>> ELSE <<>>)

\* The run has no settings file and was given a target: no batch file or
\* one that exists, and at least one URL
ValidTarget ==
    /\ ConfigFile \notin DOMAIN files
    /\ Param(args.kwargs, "from_file") \in {None, Some(""), Some(BatchFile)}
    /\ RunUrls # <<>>

\* The well-formed raw items the engine returns for one URL that does not fail
EngineItems ==
    LET info == Val(args.engine.info)
        items == IF "entries" \in DOMAIN info THEN Val(info["entries"])
                 ELSE <<args.engine.info>>
    IN  SelectSeq(items, WellFormed)

RECURSIVE ItemsOfUrls(_)
ItemsOfUrls(urls) ==
    IF urls = <<>> THEN <<>>
    ELSE (IF Head(urls) \in args.engine.fails THEN <<>> ELSE EngineItems)
         \o ItemsOfUrls(Tail(urls))

\* The raw items of the run that pass the thresholds of the run; with no
\* settings file the thresholds are the ones supplied
RunExpected ==
    LET Passes(item) ==
            Survives([like_count |-> Get(Val(item), "like_count"),
                      view_count |-> Get(Val(item), "view_count")],
                     Param(args.kwargs, "min_likes"), Param(args.kwargs, "min_views"))
    IN  SelectSeq(ItemsOfUrls(RunUrls), Passes)

\* The calls of the engine's download made in the run
DownloadCalls == SelectSeq(ydl, LAMBDA c : c.call = "download")

\* The engines constructed for a download: the ones not built for a fetch
DownloadEngines ==
    SelectSeq(ydl, LAMBDA c : c.call = "YoutubeDL" /\ "extract_flat" \notin DOMAIN c.opts)

\* C13: in a run over a URL list in which the engine call fails for some
\* URL, the run does not abort: it returns, every URL of the list has been
\* fetched, and the result holds the records of the URLs that did not fail.
C13_FetchFailureIsolated ==
    (/\ pc # "call"
     /\ ValidTarget
     /\ \E i \in 1..Len(RunUrls) : RunUrls[i] \in args.engine.fails) =>
        /\ pc = "returned"
        /\ fetched = RunUrls
        /\ \A i \in 1..Len(RunUrls) :
              \E c \in Range(ydl) : c.call = "extract_info" /\ c.url = RunUrls[i]
        /\ RecordsOf(ret, RunExpected)

C15_MetadataOnly ==
    (pc # "call" /\ ValidTarget /\ TruthyBool(Param(args.kwargs, "metadata_only"))) =>
        /\ pc = "returned"
        /\ fetched = RunUrls
        /\ RecordsOf(ret, RunExpected)
        /\ dispatched = <<>>
        /\ DownloadCalls = <<>>

\* C16: a run whose filtered list is empty completes normally returning the
\* empty list, with no dispatch and no download engine constructed or invoked.
C16_EmptyListNoDispatch ==
    (pc # "call" /\ ValidTarget /\ RunExpected = <<>>) =>
        /\ pc = "returned"
        /\ ret = <<>>
        /\ dispatched = <<>>
        /\ DownloadEngines = <<>>
        /\ DownloadCalls = <<>>

\* C17: a download run with a non-empty filtered list invokes the engine's
\* download exactly once, with the webpage_url of every filtered record in
\* filtered order, and returns the filtered list.
C17_DownloadOnceInOrder ==
    (/\ pc # "call"
     /\ ValidTarget
     /\ ~TruthyBool(Param(args.kwargs, "metadata_only"))
     /\ RunExpected # <<>>) =>
        /\ pc = "returned"
        /\ RecordsOf(ret, RunExpected)
        /\ Len(DownloadCalls) = 1
        /\ DownloadCalls[1].urls =
              [i \in 1..Len(RunExpected) |-> Val(Val(RunExpected[i])["webpage_url"])]

(***************************************************************************)
(* Claims about the download dispatcher, checked under SpecDispatch.  The  *)
(* dispatcher has no transcripts flag: the resolver hands it the resolved  *)
(* transcript_language, which is None when transcripts are disabled, so    *)
(* transcripts are enabled for a dispatch when a language is passed.       *)
(***************************************************************************)
\* The call reaches the engine: a non-empty list and a fragment count
Dispatches ==
    /\ args.kwargs["videos"] # <<>>
    /\ ("concurrent_downloads" \in DOMAIN args.kwargs
            => args.kwargs["concurrent_downloads"] # None)

\* C18: a dispatch for a non-empty list, called as the orchestrator calls it
\* with the resolved archive path, constructs the download engine with that
\* archive path in its options.
C18_ArchiveInOptions ==
    (/\ pc # "call"
     /\ Dispatches
     /\ "download_archive_path" \in DOMAIN args.kwargs) =>
        /\ Len(DownloadEngines) = 1
        /\ "download_archive" \in DOMAIN DownloadEngines[1].opts
        /\ DownloadEngines[1].opts["download_archive"] =
              Val(args.kwargs["download_archive_path"])

RecognizedKeys == ConfigFields \cup {"download_archive"}

\* The field is present in what the loader returned
Present(result, field) == field \in DOMAIN result /\ result[field] # None

\* The settings file at the path loaded; an empty dataset when there is none
Parsed == IF args.path \in DOMAIN files THEN files[args.path] ELSE EmptyDict

\* Every recognized key of the [defaults] section holds a value of its type
Parseable ==
    \A key \in RecognizedKeys \cap DOMAIN Parsed["defaults"] :
        Converted(key, Parsed["defaults"][key]).raised = NoException

\* C20: loading a path that does not exist, or a file without a [defaults]
\* section, raises no error and yields a record with every field absent;
\* loading a [defaults] section yields a record in which exactly the
\* recognized keys of the section are present.
C20_AbsentOrPartial ==
    pc # "call" =>
        /\ "defaults" \notin DOMAIN Parsed =>
              /\ raised = NoException
              /\ \A key \in RecognizedKeys : ~Present(ret, key)
        /\ ("defaults" \in DOMAIN Parsed /\ Parseable) =>
              /\ raised = NoException
              /\ \A key \in RecognizedKeys :
                    Present(ret, key) <=> key \in DOMAIN Parsed["defaults"]

\* C22: a load of a settings file whose [defaults] section parses raises no
\* error and yields a record holding the converted value of every one of the
\* eleven recognized keys present in the section, cookies_from_browser,
\* cookies_file and download_archive included, and no unrecognized key.
C22_EveryRecognizedKeyRead ==
    (pc # "call" /\ "defaults" \in DOMAIN Parsed /\ Parseable) =>
        /\ raised = NoException
        /\ \A key \in RecognizedKeys \cap DOMAIN Parsed["defaults"] :
              /\ Present(ret, key)
              /\ ret[key] = Converted(key, Parsed["defaults"][key]).value
        /\ DOMAIN ret \subseteq RecognizedKeys

(***************************************************************************)
(* Claims about the settings file in a run of download_videos, checked     *)
(* under SpecRun.                                                          *)
(***************************************************************************)
\* The run has a settings file in which a recognized key of [defaults] does
\* not parse as its type
UnparsableConfig ==
    /\ Param(args.kwargs, "config_path") = Some(ConfigFile)
    /\ ConfigFile \in DOMAIN files
    /\ "defaults" \in DOMAIN files[ConfigFile]
    /\ \E key \in RecognizedKeys \cap DOMAIN files[ConfigFile]["defaults"] :
          Converted(key, files[ConfigFile]["defaults"][key]).raised # NoException

\* C21: a run whose settings file holds a recognized key that does not parse
\* as its type ends in the configuration error raised by the load, with no
\* metadata fetch and no dispatch performed.
C21_ConfigErrorIsFatal ==
    (pc # "call" /\ UnparsableConfig) =>
        /\ pc = "raised"
        /\ raised = "ValueError"
        /\ fetched = <<>>
        /\ dispatched = <<>>
        /\ ydl = <<>>

(***************************************************************************)
(* Claims about the command-line interface, checked under SpecCli.         *)
(***************************************************************************)
\* The texts of the lines of output of the command
OutputTexts == {ret.output[i].text : i \in 1..Len(ret.output)}

\* C23: when download_videos raises ValueError the command prints
\* 'Error: <message>', when it raises any other exception the command prints
\* 'An unexpected error occurred: <message>'; in both cases the exit status
\* is not zero and 'Download complete.' is not printed.
C23_UsageErrorDistinct ==
    (pc = "exited" /\ raised # NoException) =>
        /\ ret.exit_code # 0
        /\ "Download complete." \notin OutputTexts
        /\ LET last == ret.output[Len(ret.output)]
           IN  /\ last.err
               /\ last.detail = <<raised>>
               /\ last.text = IF raised = "ValueError" THEN "Error: "
                              ELSE "An unexpected error occurred: "

\* The command has reported a ValueError of download_videos
C23_Witness ==
    /\ pc = "exited"
    /\ raised = "ValueError"
    /\ ret.exit_code = 1
    /\ ret.output[Len(ret.output)].text = "Error: "

(***************************************************************************)
(* Further claims about apply_filters: the identity law under SpecFilter,  *)
(* idempotence and the absence of side effects under SpecRepeat.           *)
(***************************************************************************)
\* C24: apply_filters with both thresholds absent (and no date criterion)
\* returns its input list unchanged: the same records in the same order.
C24_IdentityLaw ==
    (/\ pc # "call"
     /\ args.min_likes = None
     /\ args.min_views = None
     /\ args.process_after_date = None) =>
        /\ pc = "returned"
        /\ ret = args.videos

\* The identity law has acted on a list holding a record with no like_count
\* and a record with no view_count
C24_Witness ==
    /\ pc = "returned"
    /\ args.min_likes = None
    /\ args.min_views = None
    /\ args.process_after_date = None
    /\ Len(ret) = MaxVideos
    /\ \E i \in 1..Len(args.videos) : args.videos[i].like_count = None
    /\ \E i \in 1..Len(args.videos) : args.videos[i].view_count = None

\* C25: filtering is idempotent: apply_filters on the list a call returned,
\* with the same thresholds, returns that list again.
C25_Idempotent ==
    [][(pc' = "refiltered" /\ args.process_after_date = None) =>
          (ret' = ret /\ raised' = NoException)]_vars

\* A list from which the first call dropped a record has been filtered again
C25_Witness ==
    /\ pc = "refiltered"
    /\ args.process_after_date = None
    /\ args.min_likes # None
    /\ args.min_views # None
    /\ ret # <<>>
    /\ Len(ret) < Len(args.videos)

ExtractedUrls ==
    LET extracts == SelectSeq(ydl, LAMBDA c : c.call = "extract_info")
    IN  [i \in 1..Len(extracts) |-> extracts[i].url]

\* The positions in the log of engine calls of the calls of one kind
CallPositions(kind) == {i \in 1..Len(ydl) : ydl[i].call = kind}

\* C27: in a run the engine is asked for the URLs of the collector's list
\* one at a time, in list order, each once; and the collection handed to the
\* filter is the concatenation in URL order of the records of every URL,
\* nothing for a failed URL and nothing merged, as the result of a run
\* without thresholds shows.
C27_FetchOrderAndConcatenation ==
    (pc # "call" /\ ValidTarget) =>
        /\ fetched = RunUrls
        /\ ExtractedUrls = RunUrls
        /\ (Param(args.kwargs, "min_likes") = None
            /\ Param(args.kwargs, "min_views") = None) =>
               RecordsOf(ret, ItemsOfUrls(RunUrls))

\* C28: a run goes through the pipeline once and in order: it fetches every
\* URL of the collector's list, filters the whole collection with the
\* resolved thresholds, and then acts; there is at most one dispatch, it
\* follows every fetch, and it is given the filtered list the run returns.
C28_LinearPipeline ==
    (pc # "call" /\ ValidTarget) =>
        /\ pc = "returned"
        /\ ExtractedUrls = RunUrls
        /\ RecordsOf(ret, RunExpected)
        /\ Len(dispatched) <= 1
        /\ Len(DownloadCalls) = Len(dispatched)
        /\ \A i \in CallPositions("extract_info"), j \in CallPositions("download") : i < j
        /\ Len(dispatched) = 1 <=>
              (~TruthyBool(Param(args.kwargs, "metadata_only")) /\ RunExpected # <<>>)
        /\ \A i \in 1..Len(dispatched) : dispatched[i].videos = ret

\* C29: a run ends either returning the filtered record list, or in the
\* error of an unparsable settings file, or in the usage error of a run
\* given no target, and in no other way.
C29_RunOutcomes ==
    pc # "call" =>
        \/ /\ pc = "returned"
           /\ raised = NoException
           /\ ValidTarget
           /\ RecordsOf(ret, RunExpected)
        \/ /\ pc = "raised"
           /\ raised = "ValueError"
           /\ (UnparsableConfig \/ NoTarget)

\* C30: a response whose 'entries' list is present and empty is treated as
\* a single raw item: fetch_metadata returns one record when the response
\* carries an id and a webpage_url and the empty list otherwise; and a
\* response of None makes the call fail.
C30_EmptyEntriesAndNone ==
    (pc # "call" /\ ~args.response.raises) =>
        /\ args.response.info = None => pc = "raised"
        /\ (/\ args.response.info # None
            /\ "entries" \in DOMAIN Val(args.response.info)
            /\ Val(args.response.info)["entries"] = Some(<<>>)) =>
               /\ pc = "returned"
               /\ IF WellFormed(args.response.info)
                  THEN RecordsOf(ret, <<args.response.info>>)
                  ELSE ret = <<>>

====
